---- MODULE Spec2Model ----
(***************************************************************************)
(* The arbitrage trader of src/arbitrage_trader.py: resting limit orders   *)
(* on dYdX (the primary venue), hedged with market orders on Hyperliquid   *)
(* (the secondary venue) when they fill.                                   *)
(*                                                                         *)
(* ArbitrageTrader receives its two venue connectors through its           *)
(* constructor.  The engine (start, stop, _trading_loop, _update_orders,   *)
(* _check_filled_orders) and PricingAlgorithm are translated statement by  *)
(* statement.  What a connector call returns is an input of the engine:    *)
(* every call either returns the value its signature declares or raises,   *)
(* and the venue keeps the true state of every order placed on it.         *)
(*                                                                         *)
(* Prices are integers in units of 1/PriceScale, each standing for the     *)
(* Python float of that decimal; sizes are integers in units of 1/SizeUnit.*)
(***************************************************************************)
EXTENDS Integers, Sequences, FiniteSets, TLC

\* ------------------------------------------------------------------ bounds
\* KeyboardInterrupts raised while the trader is stopping.
MaxStopInterrupts == 1

\* Orders the primary venue accepts in one run.
MaxOrders == 3
\* Hedge calls the secondary venue may fail for one primary order.
MaxHedgeFailures == 1
\* Size units per 1.0 of size (the granularity of partial fills).
SizeUnit == 2
\* Orders the primary venue accepts in the run of a trading day (RiskSpec).
MaxRiskOrders == 102

\* --------------------------------------------------------------- constants
\* offset = mid_price * 0.0001, i.e. mid_price / OffsetDenominator
OffsetDenominator == 10000
\* mid_price = (best_bid + best_ask) / 2
MidDivisor == 2
\* price_threshold = 0.001, i.e. 1 / ThresholdDenominator
ThresholdDenominator == 1000
\* one price unit of a snapshot is PriceScale model units
PriceScale == MidDivisor * OffsetDenominator
\* await asyncio.sleep(1) and await asyncio.sleep(5), in seconds
LOOP_INTERVAL == 1
ERROR_RETRY_DELAY == 5
\* config.py: MAX_DAILY_TRADES = 100
MAX_DAILY_TRADES == 100
\* trade_size: float = 1.0
trade_size == 1 * SizeUnit

\* The price that a snapshot gives in thousandths: Price(2000999) is 2000.999.
Price(thousandths) == thousandths * (PriceScale \div ThresholdDenominator)

\* Top-of-book prices (bid, ask) of the snapshots.  From a resting bid at
\* 1000 the price 1001 deviates by exactly the threshold, and the quotient
\* the code computes is the double 0.001 itself; 1002 deviates by more;
\* between 1001 and 1002 the deviation is below the threshold.  From a
\* resting ask at 1999 the price 2000.999 deviates by exactly the threshold
\* too, and the quotient the code computes is above the double 0.001.
TopPrices ==
    {<<Price(1000000), Price(1999000)>>, <<Price(1001000), Price(1999000)>>,
     <<Price(1002000), Price(1999000)>>, <<Price(1000000), Price(2000999)>>}

Abs(x) == IF x < 0 THEN -x ELSE x

\* ------------------------------------------------------------- order books
OrderBookLevel(price, size) == [price |-> price, size |-> size]

OrderBook(bids, asks) == [bids |-> bids, asks |-> asks]

\* What get_orderbook returns to the trading loop: the best level of each
\* side (the loop reads nothing below it), or a snapshot with an empty side.
OrderBooks ==
    {OrderBook(<<OrderBookLevel(t[1], SizeUnit)>>,
               <<OrderBookLevel(t[2], SizeUnit)>>) : t \in TopPrices}
    \cup {OrderBook(<<>>, <<OrderBookLevel(Price(1999000), SizeUnit)>>)}

NoOrderBook == OrderBook(<<>>, <<>>)

\* ----------------------------------------------------- float arithmetic
\* The prices of the code are Python floats (IEEE 754 doubles).  A price p of
\* the model stands for the double nearest to the decimal p / PriceScale, the
\* value float() gives the price of an order book level.  The doubles are
\* computed exactly, on naturals wider than the integers of the model:
\* sequences of limbs in base Limb, least significant limb first, without
\* leading zero limbs.
Limb == 16384

\* The bits of a limb, and of the mantissa of a double.
LimbBits == 14

MantissaBits == 53

\* Op applied to value, which is evaluated once.
Then(value, Op(_)) == CHOOSE r \in {Op(x) : x \in {value}} : TRUE

RECURSIVE Pow2(_)
Pow2(n) == IF n = 0 THEN 1 ELSE 2 * Pow2(n - 1)

RECURSIVE BitLen(_)
BitLen(n) == IF n = 0 THEN 0 ELSE 1 + BitLen(n \div 2)

RECURSIVE Big(_)
Big(n) == IF n = 0 THEN <<>> ELSE <<n % Limb>> \o Big(n \div Limb)

\* x without its leading zero limbs.
Trim(x) ==
    IF \A i \in DOMAIN x : x[i] = 0 THEN <<>>
    ELSE SubSeq(x, 1, CHOOSE i \in DOMAIN x :
                         x[i] # 0 /\ \A j \in (i + 1)..Len(x) : x[j] = 0)

BigBitLen(x) ==
    IF x = <<>> THEN 0 ELSE LimbBits * (Len(x) - 1) + BitLen(x[Len(x)])

\* x * s + carry, for s and carry up to Limb.
RECURSIVE BigTimes(_, _, _)
BigTimes(x, s, carry) ==
    IF x = <<>> THEN Big(carry)
    ELSE Then(Head(x) * s + carry,
              LAMBDA t : <<t % Limb>> \o BigTimes(Tail(x), s, t \div Limb))

\* x * 2^k
RECURSIVE BigShift(_, _)
BigShift(x, k) ==
    IF x = <<>> THEN x
    ELSE IF k >= LimbBits THEN <<0>> \o BigShift(x, k - LimbBits)
    ELSE BigTimes(x, Pow2(k), 0)

RECURSIVE BigPlus(_, _, _)
BigPlus(x, y, carry) ==
    IF x = <<>> /\ y = <<>> THEN Big(carry)
    ELSE Then((IF x = <<>> THEN 0 ELSE Head(x))
              + (IF y = <<>> THEN 0 ELSE Head(y)) + carry,
              LAMBDA t :
                  <<t % Limb>>
                  \o BigPlus(IF x = <<>> THEN x ELSE Tail(x),
                             IF y = <<>> THEN y ELSE Tail(y), t \div Limb))

\* x - y - borrow with its leading zero limbs, for x >= y + borrow.
RECURSIVE BigMinus(_, _, _)
BigMinus(x, y, borrow) ==
    IF x = <<>> THEN <<>>
    ELSE Then(Head(x) - (IF y = <<>> THEN 0 ELSE Head(y)) - borrow,
              LAMBDA t :
                  <<t % Limb>>
                  \o BigMinus(Tail(x), IF y = <<>> THEN y ELSE Tail(y),
                              IF t < 0 THEN 1 ELSE 0))

\* x < y
BigLess(x, y) ==
    \/ Len(x) < Len(y)
    \/ /\ Len(x) = Len(y)
       /\ \E i \in DOMAIN x :
             /\ x[i] < y[i]
             /\ \A j \in (i + 1)..Len(x) : x[j] = y[j]

BigDistance(x, y) ==
    IF BigLess(x, y) THEN Trim(BigMinus(y, x, 0)) ELSE Trim(BigMinus(x, y, 0))

RECURSIVE BigProduct(_, _)
BigProduct(x, y) ==
    IF x = <<>> \/ y = <<>> THEN <<>>
    ELSE Then(BigTimes(x, Head(y), 0), LAMBDA row :
         Then(BigProduct(x, Tail(y)), LAMBDA rest :
             Trim(BigPlus(row, <<0>> \o rest, 0))))

\* Quotient q and remainder r of x by s, for s up to 2^17.
RECURSIVE BigDivMod(_, _)
BigDivMod(x, s) ==
    IF x = <<>> THEN [q |-> <<>>, r |-> 0]
    ELSE Then(BigDivMod(Tail(x), s), LAMBDA hi :
         Then(hi.r * Limb + Head(x), LAMBDA t :
             [q |-> Trim(<<t \div s>> \o hi.q), r |-> t % s]))

\* The double nearest to num / den (round to nearest, ties to even), as the
\* natural m of MantissaBits bits and the k with value m / 2^k; for num >= 0
\* and den in 1 .. 2^17.
Double(num, den) ==
    IF num = 0 THEN [m |-> <<>>, k |-> 0]
    ELSE Then((MantissaBits - 1) - (BitLen(num) - BitLen(den)), LAMBDA k0 :
         Then(BigDivMod(BigShift(Big(num), k0), den), LAMBDA s0 :
         Then(IF BigBitLen(s0.q) = MantissaBits THEN k0 ELSE k0 + 1, LAMBDA k :
         Then(IF k = k0 THEN s0 ELSE BigDivMod(BigShift(Big(num), k), den),
              LAMBDA s :
                  [m |-> IF \/ 2 * s.r > den
                            \/ 2 * s.r = den /\ s.q[1] % 2 = 1
                         THEN BigPlus(s.q, <<>>, 1) ELSE s.q,
                   k |-> k]))))

\* x \div 2^k
RECURSIVE BigHalved(_, _)
BigHalved(x, k) ==
    IF x = <<>> \/ k = 0 THEN x
    ELSE IF k >= LimbBits THEN BigHalved(Tail(x), k - LimbBits)
    ELSE BigDivMod(x, Pow2(k)).q

\* The double nearest to x / 2^k (round to nearest, ties to even), in the
\* form of Double: d is the number of bits of x beyond the mantissa, q the
\* bits kept and twice_r twice the bits dropped.
Rounded(x, k) ==
    IF x = <<>> THEN [m |-> <<>>, k |-> 0]
    ELSE Then(BigBitLen(x) - MantissaBits, LAMBDA d :
         IF d <= 0 THEN [m |-> BigShift(x, -d), k |-> k - d]
         ELSE Then(BigHalved(x, d), LAMBDA q :
              Then(BigShift(Trim(BigMinus(x, BigShift(q, d), 0)), 1),
                   LAMBDA twice_r :
              Then(BigShift(<<1>>, d), LAMBDA one :
              Then(IF \/ BigLess(one, twice_r)
                      \/ twice_r = one /\ q[1] % 2 = 1
                   THEN BigPlus(q, <<>>, 1) ELSE q, LAMBDA m :
                  IF BigBitLen(m) > MantissaBits
                  THEN [m |-> BigHalved(m, 1), k |-> k - d - 1]
                  ELSE [m |-> m, k |-> k - d])))))

\* The mantissa of the double a over 2^k, for k >= a.k.
Scaled(a, k) == BigShift(a.m, k - a.k)

\* a + b, a - b (for a >= b), a * b and a / 2 of doubles a and b, as float
\* computes them: the exact result rounded to the nearest double.  The
\* prices are far from the subnormal doubles and from the overflow.
Plus(a, b) ==
    Then(IF a.k > b.k THEN a.k ELSE b.k, LAMBDA k :
        Rounded(Trim(BigPlus(Scaled(a, k), Scaled(b, k), 0)), k))

Minus(a, b) ==
    Then(IF a.k > b.k THEN a.k ELSE b.k, LAMBDA k :
        Rounded(Trim(BigMinus(Scaled(a, k), Scaled(b, k), 0)), k))

Times(a, b) == Rounded(BigProduct(a.m, b.m), a.k + b.k)

Halved(a) == IF a.m = <<>> THEN a ELSE [a EXCEPT !.k = @ + 1]

\* -------------------------------------------------------- PricingAlgorithm
\* A result of calculate_bid_ask: the two prices, or raised = TRUE (ValueError).
\* best_bid_ask returns prices of levels, written as the levels write them;
\* mid_price_offset returns prices it computes, written as the doubles [m, k].
Quote(bid, ask) == [raised |-> FALSE, bid_price |-> bid, ask_price |-> ask]

Raise == [raised |-> TRUE, bid_price |-> 0, ask_price |-> 0]

\* The strategy reading the last level of each side instead of the first.
best_bid_ask_strategyLast(orderbook) ==
    IF orderbook.bids = <<>> \/ orderbook.asks = <<>>
    THEN Raise
    ELSE Quote(orderbook.bids[Len(orderbook.bids)].price,
               orderbook.asks[Len(orderbook.asks)].price)

\* The strategy quoting 0 / 0 for a snapshot with an empty side.
best_bid_ask_strategyZero(orderbook) ==
    IF orderbook.bids = <<>> \/ orderbook.asks = <<>>
    THEN Quote(0, 0)
    ELSE Quote(orderbook.bids[1].price, orderbook.asks[1].price)

best_bid_ask_strategy(orderbook) ==
    IF orderbook.bids = <<>> \/ orderbook.asks = <<>>
    THEN Raise
    ELSE Quote(orderbook.bids[1].price, orderbook.asks[1].price)

\* The strategy with the sum of the two prices as its mid price.
mid_price_offset_strategySum(orderbook) ==
    IF orderbook.bids = <<>> \/ orderbook.asks = <<>>
    THEN Raise
    ELSE Then(Double(orderbook.bids[1].price, PriceScale), LAMBDA best_bid :
         Then(Double(orderbook.asks[1].price, PriceScale), LAMBDA best_ask :
         Then(Plus(best_bid, best_ask), LAMBDA mid_price :
         Then(Times(mid_price, Double(1, OffsetDenominator)), LAMBDA offset :
             Quote(Minus(mid_price, offset), Plus(mid_price, offset))))))

\* mid_price = (best_bid + best_ask) / 2, offset = mid_price * 0.0001, and
\* the quote mid_price - offset, mid_price + offset: the prices of the
\* levels as doubles, every operation rounded as float rounds it, and the
\* two prices of the quote the doubles [m, k] the code returns (they are
\* seldom the double of a multiple of 1 / PriceScale).
mid_price_offset_strategy(orderbook) ==
    IF orderbook.bids = <<>> \/ orderbook.asks = <<>>
    THEN Raise
    ELSE Then(Double(orderbook.bids[1].price, PriceScale), LAMBDA best_bid :
         Then(Double(orderbook.asks[1].price, PriceScale), LAMBDA best_ask :
         Then(Halved(Plus(best_bid, best_ask)), LAMBDA mid_price :
         Then(Times(mid_price, Double(1, OffsetDenominator)), LAMBDA offset :
             Quote(Minus(mid_price, offset), Plus(mid_price, offset))))))

\* config.py: PRICING_ALGORITHM = "best_bid_ask"
PRICING_ALGORITHM == "best_bid_ask"

calculate_bid_ask(name, orderbook) ==
    IF name = "best_bid_ask" THEN best_bid_ask_strategy(orderbook)
    ELSE IF name = "mid_price_offset" THEN mid_price_offset_strategy(orderbook)
    ELSE Raise

\* ------------------------------------------------------------------ state
VARIABLES
    name,               \* PricingAlgorithm.name
    is_running,         \* ArbitrageTrader.is_running
    current_bid_order,  \* ArbitrageTrader.current_bid_order
    current_ask_order,  \* ArbitrageTrader.current_ask_order
    pc,                 \* where start / _trading_loop / main stands
    dydx_orderbook,     \* local of _trading_loop, from its assignment to
                        \*   its last read (NoOrderBook outside)
    bid_price,          \* local of _trading_loop, from its assignment to
    ask_price,          \*   its last read (NoPrice outside)
    orders,             \* the primary venue: every order it accepted
    calls,              \* history: the calls of the current cycle, in order
                        \*   (up to KeyboardInterrupt when it ended a
                        \*   handler); between two cycles the sleep that
                        \*   separates them, after a stop() the calls of
                        \*   that stop()
    hedges,             \* history: hedge calls made for the order last
                        \*   placed on each side
    max_orders          \* the primary venue: the orders it accepts in a run

vars == <<name, is_running, current_bid_order, current_ask_order, pc,
          dydx_orderbook, bid_price, ask_price, orders, calls, hedges,
          max_orders>>

\* Python's None in an order slot (a record, so that slots compare).
None == [order_id |-> 0, status |-> "NONE", side |-> "NONE", type |-> "NONE",
         size |-> 0, price |-> 0]

\* The unassigned local bid_price / ask_price.
NoPrice == 0

Sides == {"BUY", "SELL"}

\* ----------------------------------------------------- the primary venue
\* The orders of the primary venue are the venue's own: the engine learns of
\* them only through the replies of its connector.  The venue's record of an
\* order it accepted holds the id the connector returned for the order.
VenueOrder(order_id, side, size) ==
    [order_id |-> order_id, side |-> side, size |-> size, filled |-> 0,
     canceled |-> FALSE]

Live(o) == ~o.canceled /\ o.filled < o.size

VenueStatus(o) ==
    IF o.canceled THEN "CANCELED"
    ELSE IF o.filled = o.size THEN "FILLED"
    ELSE IF o.filled > 0 THEN "PARTIALLY_FILLED"
    ELSE "OPEN"

\* The place in os of the order that carries order_id on side, 0 when there
\* is none.  Two orders carry one id only when they are the bid and the ask
\* of one evaluation of _update_orders; the venue tells them apart.
Ref(os, order_id, side) ==
    LET named == {i \in DOMAIN os :
                     os[i].order_id = order_id /\ os[i].side = side}
    IN  IF named = {} THEN 0 ELSE CHOOSE i \in named : \A j \in named : j <= i

\* One call as the history records it: the connector called, its arguments
\* and how it ended.  A get_order_status entry also holds the filled_size
\* returned.
Call(op, venue, side, type, order_id, price, size, result) ==
    [op |-> op, venue |-> venue, side |-> side, type |-> type,
     order_id |-> order_id, price |-> price, size |-> size, result |-> result,
     filled_size |-> 0]

\* ------------------------------------------------------ connector calls
\* A handler runs on a record m of the fields it reads and writes; raised is
\* set by the call that raises and ends the handler, legal says that the
\* replies chosen for the calls are replies the venues can give, ret is the
\* value the last call returned, side is the slot the handler is working on
\* (the history attributes every call to it).  interrupt_at is the length of
\* the history at which KeyboardInterrupt is raised in the handler (-1: it
\* is not raised): as the call recorded last returns, before the statement
\* that follows the call, or, when late holds, after that statement and
\* before the next call; interrupted says that it was raised.
Machine ==
    [bid |-> current_bid_order, ask |-> current_ask_order, orders |-> orders,
     calls |-> calls, hedges |-> hedges, is_running |-> is_running,
     side |-> "NONE", raised |-> FALSE, legal |-> TRUE, ret |-> None,
     interrupt_at |-> -1, late |-> FALSE, interrupted |-> FALSE]

\* A connector call has returned c to the handler: the handler goes on with
\* the statement after the call unless KeyboardInterrupt is raised there.
Returned(c) ==
    IF ~c.raised /\ ~c.late /\ Len(c.calls) = c.interrupt_at
    THEN [c EXCEPT !.raised = TRUE, !.interrupted = TRUE]
    ELSE c

\* The handler has reached the statements of its next block, or its end,
\* unless KeyboardInterrupt is raised before.
Entered(m) ==
    IF ~m.raised /\ m.late /\ Len(m.calls) = m.interrupt_at
    THEN [m EXCEPT !.raised = TRUE, !.interrupted = TRUE]
    ELSE m

\* The handler turns to the slot of side.
For(m, side) == [m EXCEPT !.side = side]

\* A reply chosen for a call that the handler does not make is the first one
\* listed for it: no other choice is a different run.
Unused(m, r, first) == [m EXCEPT !.legal = @ /\ r = first]

\* DYDXTrader.get_orderbook / HyperliquidTrader.get_orderbook: the request
\* returns a snapshot, or it fails and the exception is re-raised.
FetchReplies == {"ok", "raise"}

get_orderbook(m, venue, r) ==
    [m EXCEPT
        !.calls = Append(@, Call("get_orderbook", venue, "NONE", "NONE", 0, 0,
                                 0, r)),
        !.raised = (r # "ok")]

\* DYDXTrader.place_order returns the record of the order, status PENDING,
\* with the id "dydx_<second of the call>": the id of an order placed right
\* after another one, in the same evaluation of _update_orders, is a new one
\* or, within the same second, the id of that other order.  Any two other
\* placements have a sleep of the loop between them.  A connector that
\* reaches the venue may also raise, and then no order exists.
PlaceReplies == {"ok", "ok_same_second", "raise"}

place_order(m, side, order_type, size, price, r) ==
    LET last == Len(m.orders)
        after_placement ==
            /\ m.calls # <<>>
            /\ m.calls[Len(m.calls)].op = "place_order"
            /\ m.calls[Len(m.calls)].result = "ok"
        id == IF r = "ok_same_second" /\ after_placement
              THEN m.orders[last].order_id
              ELSE last + 1
        done == Call("place_order", "dydx", side, order_type,
                     IF r = "raise" THEN 0 ELSE id, price, size,
                     IF r = "raise" THEN "raise" ELSE "ok")
    IN  [m EXCEPT
            !.legal = /\ @
                      /\ r # "raise" => last < max_orders
                      /\ r = "ok_same_second" => after_placement,
            !.orders = IF r # "raise" THEN Append(@, VenueOrder(id, side, size))
                       ELSE @,
            !.calls = Append(@, done),
            !.hedges = IF r # "raise" THEN [@ EXCEPT ![side] = 0] ELSE @,
            !.raised = (r = "raise"),
            !.ret = [order_id |-> id, status |-> "PENDING", side |-> side,
                     type |-> order_type, size |-> size, price |-> price]]

\* DYDXTrader.cancel_order -> bool returns True whatever the order is (also
\* for one that is cancelled, filled or unknown); a connector that reaches
\* the venue may also return False or raise.  The venue cancels the order
\* when the reply is True and the order is still live on it.
CancelReplies == {"true", "false", "raise"}

cancel_order(m, order_id, r) ==
    LET ref == Ref(m.orders, order_id, m.side)
        done == Call("cancel_order", "dydx", m.side, "NONE", order_id, 0, 0, r)
    IN  [m EXCEPT
            !.orders = IF r = "true" /\ ref # 0 /\ Live(m.orders[ref])
                       THEN [@ EXCEPT ![ref].canceled = TRUE]
                       ELSE @,
            !.calls = Append(@, done),
            !.raised = (r = "raise"),
            !.ret = None]

\* DYDXTrader.get_order_status returns status FILLED and filled_size 1.0
\* whatever the order is (reply "filled"); a connector that reaches the venue
\* returns the venue's status and filled_size of the order (reply "ok"), or
\* raises.
StatusReplies == {"ok", "filled", "raise"}

get_order_status(m, order_id, r) ==
    LET ref == Ref(m.orders, order_id, m.side)
        status ==
            IF r = "ok" /\ ref # 0
            THEN [order_id |-> order_id, status |-> VenueStatus(m.orders[ref]),
                  filled_size |-> m.orders[ref].filled]
            ELSE [order_id |-> order_id, status |-> "FILLED",
                  filled_size |-> 1 * SizeUnit]
        done == [Call("get_order_status", "dydx", m.side, "NONE", order_id, 0,
                      0, IF r = "raise" THEN r ELSE status.status)
                   EXCEPT !.filled_size =
                              IF r = "raise" THEN 0 ELSE status.filled_size]
    IN  [m EXCEPT
            !.legal = @ /\ (r = "ok" => ref # 0),
            !.calls = Append(@, done),
            !.raised = (r = "raise"),
            !.ret = status]

\* HyperliquidTrader.place_market_order: the market order executes and the
\* call returns, or the call raises.
HedgeReplies == {"ok", "raise"}

place_market_order(m, side, size, r) ==
    LET done == Call("place_market_order", "hyperliquid", side, "MARKET", 0, 0,
                     size, r)
    IN  [m EXCEPT
            !.calls = Append(@, done),
            !.raised = (r # "ok"),
            !.ret = None]

\* asyncio.sleep(seconds) as the history records it.
asyncio_sleep(seconds) ==
    Call("sleep", "NONE", "NONE", "NONE", 0, 0, seconds, "ok")

\* --------------------------------------------------------- ArbitrageTrader
\* abs(price - current_price) / current_price compared with price_threshold,
\* for the doubles a of price, b of current_price (b > 0) and t of 0.001.
\* abs(a - b) is exact when a and b are within a factor two of each other, and
\* otherwise it is above b / 2, as its exact value is.  The quotient is
\* rounded to the nearest double and t is a double, so the rounded quotient
\* is above t exactly when the quotient is above the midpoint of t and the
\* double that follows it, or on it when the tie is rounded away from t (the
\* mantissa of t is odd).  lhs / rhs is the quotient over that midpoint.
Deviation(price, current_price) ==
    Then(Double(price, PriceScale), LAMBDA a :
    Then(Double(current_price, PriceScale), LAMBDA b :
    Then(Double(1, ThresholdDenominator), LAMBDA t :
    Then(IF a.k > b.k THEN a.k ELSE b.k, LAMBDA k :
    Then(BigShift(a.m, k - a.k), LAMBDA aa :
    Then(BigShift(b.m, k - b.k), LAMBDA bb :
    Then(BigDistance(aa, bb), LAMBDA d :
    Then(BigShift(t.m, 1), LAMBDA tt :
    Then(BigPlus(tt, <<>>, 1), LAMBDA above :
        [lhs |-> BigShift(d, t.k + 1),
         rhs |-> BigProduct(above, bb),
         even |-> t.m[1] % 2 = 0])))))))))

\* abs(price - current_price) / current_price > price_threshold, for a
\* current_price other than 0 (a negative one gives a quotient below 0, a
\* negative price a quotient above 1).
QuotientAbove(price, current_price) ==
    IF current_price < 0 THEN FALSE
    ELSE IF price < 0 THEN TRUE
    ELSE Then(Deviation(price, current_price), LAMBDA q :
             IF q.even THEN BigLess(q.rhs, q.lhs) ELSE ~BigLess(q.lhs, q.rhs))

\* The prices of the levels of OrderBooks, and the comparison of every two
\* of them, evaluated once.
LevelPrices ==
    UNION {{ob.bids[i].price : i \in DOMAIN ob.bids}
           \cup {ob.asks[i].price : i \in DOMAIN ob.asks} : ob \in OrderBooks}

LevelPricesAbove ==
    {pp \in {<<price, current_price>> :
                price \in LevelPrices, current_price \in LevelPrices} :
        QuotientAbove(pp[1], pp[2])}

\* abs(price - current_price) / current_price > price_threshold.
DeviationAbove(price, current_price) ==
    IF price \in LevelPrices /\ current_price \in LevelPrices
    THEN <<price, current_price>> \in LevelPricesAbove
    ELSE QuotientAbove(price, current_price)

\* The side of the hedge of a filled bid, and of a filled ask.
\* The hedge of a filled bid on the side of the bid.
BidHedgeSideSame == "BUY"

BidHedgeSide == "SELL"

AskHedgeSide == "BUY"

\* _update_orders, the bid order: cancel it when the price moved.
update_cancel_bid(m0, price, r) ==
    LET m == Entered(m0) IN
    IF m.raised \/ m.bid = None THEN Unused(m, r, "true")
    ELSE IF m.bid.price = 0
         THEN Unused([m EXCEPT !.raised = TRUE], r, "true")
    ELSE IF ~DeviationAbove(price, m.bid.price) THEN Unused(m, r, "true")
    ELSE LET c == Returned(cancel_order(For(m, "BUY"), m.bid.order_id, r))
         IN  IF c.raised THEN c ELSE [c EXCEPT !.bid = None]

update_cancel_ask(m0, price, r) ==
    LET m == Entered(m0) IN
    IF m.raised \/ m.ask = None THEN Unused(m, r, "true")
    ELSE IF m.ask.price = 0
         THEN Unused([m EXCEPT !.raised = TRUE], r, "true")
    ELSE IF ~DeviationAbove(price, m.ask.price) THEN Unused(m, r, "true")
    ELSE LET c == Returned(cancel_order(For(m, "SELL"), m.ask.order_id, r))
         IN  IF c.raised THEN c ELSE [c EXCEPT !.ask = None]

\* _update_orders: place new orders if needed.
\* The placement left to the next evaluation when this one has cancelled the
\* bid order.
update_place_bidDeferred(m0, price, r) ==
    LET m == Entered(m0) IN
    IF \/ m.raised
       \/ m.bid # None
       \/ \E i \in DOMAIN m.calls :
             m.calls[i].op = "cancel_order" /\ m.calls[i].side = "BUY"
    THEN Unused(m, r, "ok")
    ELSE LET p == Returned(place_order(m, "BUY", "LIMIT", trade_size, price, r))
         IN  IF p.raised THEN p ELSE [p EXCEPT !.bid = p.ret]

update_place_bid(m0, price, r) ==
    LET m == Entered(m0) IN
    IF m.raised \/ m.bid # None THEN Unused(m, r, "ok")
    ELSE LET p == Returned(place_order(m, "BUY", "LIMIT", trade_size, price, r))
         IN  IF p.raised THEN p ELSE [p EXCEPT !.bid = p.ret]

\* The ask placement as the else branch of the bid placement: skipped by an
\* evaluation that has placed a bid order.
update_place_askElse(m0, price, r) ==
    LET m == Entered(m0) IN
    IF \/ m.raised
       \/ m.ask # None
       \/ /\ m.calls # <<>>
          /\ m.calls[Len(m.calls)].op = "place_order"
          /\ m.calls[Len(m.calls)].side = "BUY"
    THEN Unused(m, r, "ok")
    ELSE LET p == Returned(place_order(m, "SELL", "LIMIT", trade_size, price, r))
         IN  IF p.raised THEN p ELSE [p EXCEPT !.ask = p.ret]

update_place_ask(m0, price, r) ==
    LET m == Entered(m0) IN
    IF m.raised \/ m.ask # None THEN Unused(m, r, "ok")
    ELSE LET p == Returned(place_order(m, "SELL", "LIMIT", trade_size, price, r))
         IN  IF p.raised THEN p ELSE [p EXCEPT !.ask = p.ret]

\* place_market_order for the filled order of one side, counted in the
\* history of that order.
hedge(m, filled_side, side, r) ==
    LET h == place_market_order(m, side, trade_size, r)
    IN  [h EXCEPT
            !.legal = @ /\ (r = "raise" =>
                               m.hedges[filled_side] < MaxHedgeFailures),
            !.hedges = [@ EXCEPT ![filled_side] = @ + 1]]

\* _check_filled_orders, the bid order.
check_bid(m0, s, h) ==
    LET m == Entered(m0) IN
    IF m.raised \/ m.bid = None THEN Unused(Unused(m, s, "ok"), h, "ok")
    ELSE LET st == Returned(get_order_status(For(m, "BUY"), m.bid.order_id,
                                             s))
         IN  IF st.raised THEN Unused(st, h, "ok")
             ELSE IF st.ret.status # "FILLED" THEN Unused(st, h, "ok")
             ELSE LET hd == Returned(hedge(st, "BUY", BidHedgeSide, h))
                  IN  IF hd.raised THEN hd ELSE [hd EXCEPT !.bid = None]

check_ask(m0, s, h) ==
    LET m == Entered(m0) IN
    IF m.raised \/ m.ask = None THEN Unused(Unused(m, s, "ok"), h, "ok")
    ELSE LET st == Returned(get_order_status(For(m, "SELL"), m.ask.order_id,
                                             s))
         IN  IF st.raised THEN Unused(st, h, "ok")
             ELSE IF st.ret.status # "FILLED" THEN Unused(st, h, "ok")
             ELSE LET hd == Returned(hedge(st, "SELL", AskHedgeSide, h))
                  IN  IF hd.raised THEN hd ELSE [hd EXCEPT !.ask = None]

\* stop(): cancel the bid order, then the ask order; the slots are kept.
stop_bid(m0, r) ==
    LET m == Entered(m0) IN
    IF m.raised \/ m.bid = None THEN Unused(m, r, "true")
    ELSE Returned(cancel_order(For(m, "BUY"), m.bid.order_id, r))

stop_ask(m0, r) ==
    LET m == Entered(m0) IN
    IF m.raised \/ m.ask = None THEN Unused(m, r, "true")
    ELSE Returned(cancel_order(For(m, "SELL"), m.ask.order_id, r))

\* The cancel_order calls one stop() makes at most.
StopCallsAtMost == 2

\* One call of stop(), c1 and c2 the replies to its cancel_order calls.  It
\* runs to its end or to a cancel_order that raises, or, when cut holds,
\* KeyboardInterrupt is raised in it: before self.is_running = False
\* (k = -1; also before the call of stop()), after it and before a
\* cancel_order call (k = 0), or as its k-th cancel_order call returns.
stop(m, cut, k, c1, c2) ==
    IF cut /\ k = -1
    THEN Unused(Unused([m EXCEPT !.raised = TRUE, !.interrupted = TRUE],
                       c1, "true"), c2, "true")
    ELSE LET m0 == [m EXCEPT !.is_running = FALSE,
                             !.raised = FALSE,
                             !.interrupted = FALSE,
                             !.interrupt_at = IF cut THEN Len(m.calls) + k
                                              ELSE -1,
                             !.late = (k = 0)]
             end == stop_ask(stop_bid(m0, c1), c2)
         IN  [end EXCEPT !.legal = @ /\ (cut => end.interrupted)]

\* ----------------------------------------------------------- _trading_loop
\* The loop body with the fill check before the reprice decision.
NextStepCheckFirst(step) ==
    CASE step = "fetch_dydx" -> "fetch_hl"
      [] step = "fetch_hl" -> "quote"
      [] step = "quote" -> "check"
      [] step = "check" -> "update"
      [] step = "update" -> "sleep"

\* The statement that follows a statement of the loop body that returned.
NextStep(step) ==
    CASE step = "fetch_dydx" -> "fetch_hl"
      [] step = "fetch_hl" -> "quote"
      [] step = "quote" -> "update"
      [] step = "update" -> "check"
      [] step = "check" -> "sleep"

\* The exception swallowed: the loop body goes on with its next statements.
OnExceptionContinues == "update"

\* The loop without its except clause: the exception leaves the loop.
OnExceptionLeaves == "exited"

\* except Exception: log, then asyncio.sleep(5)
OnException == "backoff"

\* After either sleep the while condition is evaluated again.
AfterSleep == "head"

AfterBackoff == "head"

Running == {"head", "fetch_dydx", "fetch_hl", "quote", "update", "check",
            "sleep", "backoff"}

\* The fields a handler leaves behind.
Commit(m) ==
    /\ m.legal
    /\ current_bid_order' = m.bid
    /\ current_ask_order' = m.ask
    /\ orders' = m.orders
    /\ calls' = m.calls
    /\ hedges' = m.hedges

\* The trader as main() constructs it around PricingAlgorithm(pricing_name).
Constructed(pricing_name) ==
    /\ name = pricing_name
    /\ is_running = FALSE
    /\ current_bid_order = None
    /\ current_ask_order = None
    /\ pc = "init"
    /\ dydx_orderbook = NoOrderBook
    /\ bid_price = NoPrice
    /\ ask_price = NoPrice
    /\ orders = <<>>
    /\ calls = <<>>
    /\ hedges = [s \in Sides |-> 0]

Init ==
    /\ Constructed(PRICING_ALGORITHM)
    /\ max_orders = MaxOrders

\* start(): is_running = True, then asyncio.run(self._trading_loop())
Start ==
    /\ pc = "init"
    /\ is_running' = TRUE
    /\ pc' = "head"
    /\ UNCHANGED max_orders
    /\ UNCHANGED <<name, current_bid_order, current_ask_order, dydx_orderbook,
                   bid_price, ask_price, orders, calls, hedges>>

\* while self.is_running: a new cycle begins, or the loop ends.
LoopHead ==
    /\ pc = "head"
    /\ pc' = IF is_running THEN "fetch_dydx" ELSE "exited"
    /\ UNCHANGED max_orders
    /\ UNCHANGED <<name, is_running, current_bid_order, current_ask_order,
                   dydx_orderbook, bid_price, ask_price, orders, calls, hedges>>

\* dydx_orderbook = self.dydx_trader.get_orderbook(...)
FetchDydxFrom(books) ==
    /\ pc = "fetch_dydx"
    /\ \E r \in FetchReplies :
       \E ob \in IF r = "ok" THEN books ELSE {NoOrderBook} :
          LET m == get_orderbook([Machine EXCEPT !.calls = <<>>], "dydx", r)
          IN  /\ Commit(m)
              /\ dydx_orderbook' = IF m.raised THEN dydx_orderbook ELSE ob
              /\ pc' = IF m.raised THEN OnException ELSE NextStep("fetch_dydx")
    /\ UNCHANGED max_orders
    /\ UNCHANGED <<name, is_running, bid_price, ask_price>>

FetchDydx == FetchDydxFrom(OrderBooks)

\* hl_orderbook = self.hl_trader.get_orderbook(...); the snapshot is not used.
FetchHl ==
    /\ pc = "fetch_hl"
    /\ \E r \in FetchReplies :
          LET m == get_orderbook(Machine, "hyperliquid", r)
          IN  /\ Commit(m)
              /\ pc' = IF m.raised THEN OnException ELSE NextStep("fetch_hl")
              /\ dydx_orderbook' = IF m.raised THEN NoOrderBook
                                   ELSE dydx_orderbook
    /\ UNCHANGED max_orders
    /\ UNCHANGED <<name, is_running, bid_price, ask_price>>

\* bid_price, ask_price = self.pricing_algorithm.calculate_bid_ask(dydx_orderbook)
CalculateBidAsk ==
    /\ pc = "quote"
    /\ LET q == calculate_bid_ask(name, dydx_orderbook)
       IN  /\ bid_price' = IF q.raised THEN bid_price ELSE q.bid_price
           /\ ask_price' = IF q.raised THEN ask_price ELSE q.ask_price
           /\ dydx_orderbook' = NoOrderBook
           /\ calls' = Append(calls,
                  Call("calculate_bid_ask", "NONE", "NONE", "NONE", 0, 0, 0,
                       IF q.raised THEN "raise" ELSE "ok"))
           /\ pc' = IF q.raised THEN OnException ELSE NextStep("quote")
    /\ UNCHANGED max_orders
    /\ UNCHANGED <<name, is_running, current_bid_order, current_ask_order,
                   orders, hedges>>

\* await self._update_orders(bid_price, ask_price); cb, ca, pb, pa are the
\* replies of the venue to the calls it makes, in the order it makes them.
UpdateOrders ==
    /\ pc = "update"
    /\ \E cb \in CancelReplies :
        LET m1 == update_cancel_bid(Machine, bid_price, cb) IN
        /\ m1.legal
        /\ \E ca \in CancelReplies :
            LET m2 == update_cancel_ask(m1, ask_price, ca) IN
            /\ m2.legal
            /\ \E pb \in PlaceReplies :
                LET m3 == update_place_bid(m2, bid_price, pb) IN
                /\ m3.legal
                /\ \E pa \in PlaceReplies :
                    LET m4 == update_place_ask(m3, ask_price, pa) IN
                    /\ Commit(m4)
                    /\ pc' = IF m4.raised THEN OnException
                             ELSE NextStep("update")
    /\ bid_price' = NoPrice
    /\ ask_price' = NoPrice
    /\ UNCHANGED max_orders
    /\ UNCHANGED <<name, is_running, dydx_orderbook>>

\* await self._check_filled_orders(); sb, hb, sa, ha are the replies to the
\* calls it makes, in the order it makes them.
CheckFilledOrders ==
    /\ pc = "check"
    /\ \E sb \in StatusReplies, hb \in HedgeReplies :
        LET m1 == check_bid(Machine, sb, hb) IN
        /\ m1.legal
        /\ \E sa \in StatusReplies, ha \in HedgeReplies :
            LET m2 == check_ask(m1, sa, ha) IN
            /\ Commit(m2)
            /\ pc' = IF m2.raised THEN OnException ELSE NextStep("check")
    /\ UNCHANGED max_orders
    /\ UNCHANGED <<name, is_running, dydx_orderbook, bid_price, ask_price>>

\* await asyncio.sleep(1)
Sleep ==
    /\ pc = "sleep"
    /\ pc' = AfterSleep
    /\ calls' = <<asyncio_sleep(LOOP_INTERVAL)>>
    /\ UNCHANGED max_orders
    /\ UNCHANGED <<name, is_running, current_bid_order, current_ask_order,
                   dydx_orderbook, bid_price, ask_price, orders, hedges>>

\* except Exception as e: logger.error(...); await asyncio.sleep(5)
Backoff ==
    /\ pc = "backoff"
    /\ pc' = AfterBackoff
    /\ calls' = <<asyncio_sleep(ERROR_RETRY_DELAY)>>
    /\ UNCHANGED max_orders
    /\ UNCHANGED <<name, is_running, current_bid_order, current_ask_order,
                   dydx_orderbook, bid_price, ask_price, orders, hedges>>

\* KeyboardInterrupt is to be raised in the block m enters as the k-th call
\* of the block returns, before the statement that follows the call.
Early(m, k) == [m EXCEPT !.interrupt_at = Len(m.calls) + k, !.late = FALSE]

\* KeyboardInterrupt is raised after the block that m has left, before the
\* next call of the handler.
Late(m) == Entered([m EXCEPT !.interrupt_at = Len(m.calls), !.late = TRUE])

\* The handler is left where KeyboardInterrupt was raised in it.
Cut(m0) ==
    \E m \in {m0} :
        /\ m.interrupted
        /\ Commit(m)

\* The handler is left before the statements of a block: the block it was
\* called with, or the block after one that it has completed.
CutAfter(m0) ==
    \E m \in {m0} :
        /\ m.legal
        /\ ~m.raised
        /\ Cut(Late(m))

\* _update_orders left by KeyboardInterrupt: as a connector call returns (the
\* call has taken effect, the assignment that follows it has not), or after
\* that assignment at a later statement.
InterruptedUpdate ==
    \E cb \in CancelReplies :
    \E m1 \in {update_cancel_bid(Machine, bid_price, cb)} :
        \/ CutAfter(Unused(Machine, cb, "true"))
        \/ Cut(update_cancel_bid(Early(Machine, 1), bid_price, cb))
        \/ CutAfter(m1)
        \/ /\ m1.legal
           /\ ~m1.raised
           /\ \E ca \in CancelReplies :
              \E m2 \in {update_cancel_ask(m1, ask_price, ca)} :
                \/ Cut(update_cancel_ask(Early(m1, 1), ask_price, ca))
                \/ CutAfter(m2)
                \/ /\ m2.legal
                   /\ ~m2.raised
                   /\ \E pb \in PlaceReplies :
                      \E m3 \in {update_place_bid(m2, bid_price, pb)} :
                        \/ Cut(update_place_bid(Early(m2, 1), bid_price, pb))
                        \/ CutAfter(m3)
                        \/ /\ m3.legal
                           /\ ~m3.raised
                           /\ \E pa \in PlaceReplies :
                                \/ Cut(update_place_ask(Early(m3, 1),
                                                        ask_price, pa))
                                \/ CutAfter(update_place_ask(m3, ask_price,
                                                             pa))

\* The connector calls one block of _check_filled_orders makes at most.
CheckCallsAtMost == 2

\* _check_filled_orders left by KeyboardInterrupt: as a call returns, or after
\* the assignment that follows the hedge.
InterruptedCheck ==
    \E sb \in StatusReplies, hb \in HedgeReplies :
    \E m1 \in {check_bid(Machine, sb, hb)} :
        \/ CutAfter(Unused(Unused(Machine, sb, "ok"), hb, "ok"))
        \/ \E k \in 1..CheckCallsAtMost :
              Cut(check_bid(Early(Machine, k), sb, hb))
        \/ CutAfter(m1)
        \/ /\ m1.legal
           /\ ~m1.raised
           /\ \E sa \in StatusReplies, ha \in HedgeReplies :
                \/ \E k \in 1..CheckCallsAtMost :
                      Cut(check_ask(Early(m1, k), sa, ha))
                \/ CutAfter(check_ask(m1, sa, ha))

\* KeyboardInterrupt leaves asyncio.run(self._trading_loop()): between two
\* statements of the loop (the history is of a cycle no more), or inside
\* _update_orders or _check_filled_orders at one of its statements (the
\* history keeps the calls of the cycle up to there).  The locals of the loop
\* are gone.
Interrupt ==
    /\ pc \in Running
    /\ \/ Commit([Machine EXCEPT !.calls = <<>>])
       \/ /\ pc = "update"
          /\ InterruptedUpdate
       \/ /\ pc = "check"
          /\ InterruptedCheck
    /\ pc' = "interrupted"
    /\ dydx_orderbook' = NoOrderBook
    /\ bid_price' = NoPrice
    /\ ask_price' = NoPrice
    /\ UNCHANGED <<max_orders, name, is_running>>

\* Where a call of stop() is cut by KeyboardInterrupt, if it is.
StopCuts ==
    {[cut |-> FALSE, k |-> -1]}
        \cup {[cut |-> TRUE, k |-> k] : k \in -1..StopCallsAtMost}

Cuts(c) == IF c.cut THEN 1 ELSE 0

\* What a call of stop() leaves behind.
Stopped(m) ==
    /\ Commit(m)
    /\ is_running' = m.is_running

\* except KeyboardInterrupt: self.stop() in start().  start() returns, or the
\* handler is left by an exception: cancel_order has raised, or a further
\* KeyboardInterrupt was raised in the handler.  The history holds the calls
\* of stop().
Stop ==
    /\ pc = "interrupted"
    /\ \E cut \in StopCuts :
       \E c1 \in CancelReplies, c2 \in CancelReplies :
       \E m \in {stop([Machine EXCEPT !.calls = <<>>], cut.cut, cut.k,
                     c1, c2)} :
        /\ m.legal
        /\ Stopped(m)
        /\ pc' = IF m.interrupted THEN "stop_interrupted"
                 ELSE IF m.raised THEN "stop_raised"
                 ELSE "exited"
    /\ UNCHANGED <<max_orders, name, dydx_orderbook, bid_price, ask_price>>

\* main(): start() was left by an exception, and except KeyboardInterrupt or
\* except Exception calls trader.stop() once more; main() is over after it,
\* however that call ends.  The history holds the calls of this stop().  (A
\* caller of start() other than main() gets the exception, and nothing
\* follows.)
MainStop ==
    /\ pc \in {"stop_interrupted", "stop_raised"}
    /\ \E cut \in {c \in StopCuts :
                     Cuts(c) + (IF pc = "stop_interrupted" THEN 1 ELSE 0)
                         <= MaxStopInterrupts} :
       \E c1 \in CancelReplies, c2 \in CancelReplies :
       \E m \in {stop([Machine EXCEPT !.calls = <<>>], cut.cut, cut.k,
                     c1, c2)} :
        /\ m.legal
        /\ Stopped(m)
    /\ pc' = "exited"
    /\ UNCHANGED <<max_orders, name, dydx_orderbook, bid_price, ask_price>>

\* While the trader runs, the primary venue fills q more units of a live order.
VenueFill ==
    /\ pc \in Running
    /\ \E id \in 1..Len(orders) :
          /\ Live(orders[id])
          /\ \E q \in 1..(orders[id].size - orders[id].filled) :
                orders' = [orders EXCEPT ![id].filled = @ + q]
    /\ UNCHANGED max_orders
    /\ UNCHANGED <<name, is_running, current_bid_order, current_ask_order, pc,
                   dydx_orderbook, bid_price, ask_price, calls, hedges>>

Next ==
    \/ Start
    \/ LoopHead
    \/ FetchDydx
    \/ FetchHl
    \/ CalculateBidAsk
    \/ UpdateOrders
    \/ CheckFilledOrders
    \/ Sleep
    \/ Backoff
    \/ Interrupt
    \/ Stop
    \/ MainStop
    \/ VenueFill

Spec == Init /\ [][Next]_vars

\* ------------------------------------------------------- a trading day
\* The trader on a quiet day: every call returns, every order gets an id of
\* its own, every poll reports the state the venue holds, the dYdX book
\* stays at 1000 / 1999, and the venue fills the resting bid, whole, between
\* the reprice decision and the fill check of some cycles.  The ask never
\* fills.
QuietBook ==
    OrderBook(<<OrderBookLevel(Price(1000000), SizeUnit)>>,
              <<OrderBookLevel(Price(1999000), SizeUnit)>>)

RiskInit ==
    /\ Constructed(PRICING_ALGORITHM)
    /\ max_orders = MaxRiskOrders

RiskFetchDydx ==
    /\ FetchDydx
    /\ pc' = NextStep("fetch_dydx")
    /\ dydx_orderbook' = QuietBook

RiskFetchHl == FetchHl /\ pc' = NextStep("fetch_hl")

RiskUpdateOrders ==
    /\ UpdateOrders
    /\ pc' = NextStep("update")
    /\ \A i \in DOMAIN orders' : orders'[i].order_id = i

RiskCheckFilledOrders ==
    /\ CheckFilledOrders
    /\ pc' = NextStep("check")
    /\ \A i \in DOMAIN calls' :
          calls'[i].op = "get_order_status" =>
              calls'[i].result = VenueStatus(orders[calls'[i].order_id])

RiskVenueFill ==
    /\ pc = "check"
    /\ current_bid_order # None
    /\ VenueFill
    /\ orders' = [orders EXCEPT
                      ![Ref(orders, current_bid_order.order_id, "BUY")].filled =
                          trade_size]

RiskNext ==
    \/ Start
    \/ LoopHead
    \/ RiskFetchDydx
    \/ RiskFetchHl
    \/ CalculateBidAsk
    \/ RiskUpdateOrders
    \/ RiskVenueFill
    \/ RiskCheckFilledOrders
    \/ Sleep

RiskSpec == RiskInit /\ [][RiskNext]_vars

\* ------------------------------------------------------------ the quote
\* The trader up to its quote, over every strategy name a configuration may
\* hold and over snapshots of up to two levels a side with their sizes; 100
\* and 100.1 are the best prices of the order book of test_bot.py.
KnownNames == {"best_bid_ask", "mid_price_offset"}

Names == KnownNames \cup {"vwap"}

BidLevels ==
    {OrderBookLevel(p, z) :
        p \in {Price(100000), Price(998000), Price(1000000)},
        z \in {1, SizeUnit}}

AskLevels ==
    {OrderBookLevel(p, z) :
        p \in {Price(100100), Price(2000000), Price(2004000)},
        z \in {1, SizeUnit}}

\* The sides of up to two levels, the empty one included.
UpToTwo(levels) ==
    {<<>>} \cup {<<l>> : l \in levels}
           \cup {<<l, k>> : l \in levels, k \in levels}

PricingBooks ==
    {OrderBook(b, a) : b \in UpToTwo(BidLevels), a \in UpToTwo(AskLevels)}

PricingInit ==
    /\ \E n \in Names : Constructed(n)
    /\ max_orders = MaxOrders

PricingFetchDydx == FetchDydxFrom(PricingBooks)

PricingNext ==
    \/ Start
    \/ LoopHead
    \/ PricingFetchDydx
    \/ FetchHl
    \/ CalculateBidAsk
    \/ Backoff

PricingSpec == PricingInit /\ [][PricingNext]_vars

\* ------------------------------------------------------------------ claims
Slot(side) == IF side = "BUY" THEN current_bid_order ELSE current_ask_order

\* The venue's record of the order in the slot of side.
SlotOrder(side) == orders[Ref(orders, Slot(side).order_id, side)]

Opposite(side) == IF side = "BUY" THEN "SELL" ELSE "BUY"

\* The calls of the current cycle are in the history (not the sleep between
\* two cycles, not the calls of stop()).
InCycle == pc \in {"fetch_hl", "quote", "update", "check", "sleep", "backoff"}

\* The positions of the history that hold a successful poll reporting status.
Polls(status) ==
    {i \in DOMAIN calls :
        calls[i].op = "get_order_status" /\ calls[i].result = status}

HedgeCalls == {i \in DOMAIN calls : calls[i].op = "place_market_order"}

\* C1: exactly-once hedge.  Every poll that reports a resting order FILLED is
\* followed at once by one hedge call, and over all cycles no more than one
\* hedge call is made for the same order.
C1_ExactlyOnceHedge ==
    /\ InCycle =>
          \A i \in Polls("FILLED") :
              i < Len(calls) /\ calls[i + 1].op = "place_market_order"
    /\ \A side \in Sides : hedges[side] <= 1

\* C2: single resting order.  On each side, the order in the engine's slot
\* together with the orders of that side that are OPEN on the venue are at
\* most one order.
C2_SingleRestingOrder ==
    \A side \in Sides :
        Cardinality(
            {id \in 1..Len(orders) :
                /\ orders[id].side = side
                /\ \/ VenueStatus(orders[id]) = "OPEN"
                   \/ /\ Slot(side) # None
                      /\ Ref(orders, Slot(side).order_id, side) = id}) <= 1

\* C3: hedge size.  A poll that reports FILLED or PARTIALLY_FILLED with a
\* filled_size above the one observed before is followed by a hedge of the
\* increment.  Stated for the first poll of an order (the order was placed
\* in this cycle), where the filled_size observed before is 0.
C3_HedgeSizeIsIncrement ==
    InCycle =>
        \A i \in Polls("FILLED") \cup Polls("PARTIALLY_FILLED") :
            (/\ calls[i].filled_size > 0
             /\ \E j \in 1..(i - 1) :
                   /\ calls[j].op = "place_order"
                   /\ calls[j].result = "ok"
                   /\ calls[j].side = calls[i].side
                   /\ calls[j].order_id = calls[i].order_id)
            => /\ i < Len(calls)
               /\ calls[i + 1].op = "place_market_order"
               /\ calls[i + 1].size = calls[i].filled_size - 0

\* A resting order whose hedge has failed as often as the venue may fail it:
\* the order is still in its slot, so none of the hedge calls returned.
HedgeFailure ==
    \E side \in Sides : Slot(side) # None /\ hedges[side] >= MaxHedgeFailures

\* C4: once a hedge has failed beyond the retry budget, the primary venue
\* receives no new order.
C4_NoPlacementAfterHedgeFailure ==
    [][HedgeFailure => Len(orders') = Len(orders)]_vars

\* The cancel_order and place_order calls that one evaluation of
\* _update_orders (a step from calls to calls') made for one side.
UpdateCalls(side, op) ==
    {i \in (Len(calls) + 1)..Len(calls') :
        calls'[i].op = op /\ calls'[i].side = side}

\* One cancel of the resting order followed by one placement at price.
CancelThenPlace(side, price) ==
    /\ Cardinality(UpdateCalls(side, "cancel_order")) = 1
    /\ Cardinality(UpdateCalls(side, "place_order")) = 1
    /\ \A i \in UpdateCalls(side, "cancel_order") :
       \A j \in UpdateCalls(side, "place_order") :
          /\ i < j
          /\ calls'[i].order_id = Slot(side).order_id
          /\ calls'[j].price = price

NoCancelNoPlace(side) ==
    /\ UpdateCalls(side, "cancel_order") = {}
    /\ UpdateCalls(side, "place_order") = {}

QuotedPrice(side) == IF side = "BUY" THEN bid_price ELSE ask_price

\* An evaluation of _update_orders that returned.
UpdateReturned == pc = "update" /\ pc' = "check"

\* An evaluation of _update_orders, returned or ended by an exception.
UpdateEvaluated == pc = "update" /\ pc' \in {"check", "backoff"}

\* C5: in an evaluation of _update_orders that returns, a side
\* with a resting order gets no cancel and no place call when the deviation
\* of the new price is below 0.001, and one cancel followed by one
\* placement at the new price when it is at or above 0.001.
C5_RepriceAtOrAboveThreshold ==
    [][UpdateReturned =>
        \A side \in Sides :
            Slot(side) # None =>
                IF Abs(QuotedPrice(side) - Slot(side).price) * 1000
                       >= Slot(side).price
                THEN CancelThenPlace(side, QuotedPrice(side))
                ELSE NoCancelNoPlace(side)]_vars

\* The quotient abs(newPrice - oldPrice) / oldPrice of a side, as computed on
\* the doubles of the two prices, is above the double of 0.001.
ComputedAbove(side) ==
    <<QuotedPrice(side), Slot(side).price>> \in LevelPricesAbove

\* C6: a resting order that is FILLED on the venue when the engine cancels
\* it does not leave its slot without a hedge being dispatched for it.
C6_CancelOfFilledOrderIsHedged ==
    [][\A side \in Sides :
          (/\ pc = "update"
           /\ Slot(side) # None
           /\ VenueStatus(SlotOrder(side)) = "FILLED"
           /\ UpdateCalls(side, "cancel_order") # {}
           /\ Slot(side)' # Slot(side))
          => \E i \in (Len(calls) + 1)..Len(calls') :
                /\ calls'[i].op = "place_market_order"
                /\ calls'[i].side = Opposite(side)]_vars

\* C7: every hedge is a MARKET order on Hyperliquid, made right after the
\* poll that found a dYdX order FILLED and on the side opposite to that
\* order; every order sent to dYdX is a LIMIT order.
C7_HedgeIsOppositeMarketOrder ==
    InCycle =>
        /\ \A i \in HedgeCalls :
              /\ calls[i].venue = "hyperliquid"
              /\ calls[i].type = "MARKET"
              /\ i > 1
              /\ calls[i - 1].op = "get_order_status"
              /\ calls[i - 1].result = "FILLED"
              /\ calls[i].side = Opposite(calls[i - 1].side)
        /\ \A i \in DOMAIN calls :
              calls[i].op = "place_order" =>
                  calls[i].venue = "dydx" /\ calls[i].type = "LIMIT"

\* C7 witness: in one cycle a filled bid was hedged with a SELL and a filled
\* ask with a BUY.
C7_Witness ==
    /\ pc = "sleep"
    /\ \E i \in HedgeCalls : calls[i].side = "SELL" /\ calls[i].result = "ok"
    /\ \E i \in HedgeCalls : calls[i].side = "BUY" /\ calls[i].result = "ok"

\* C8: the hedge calls made for one filled order stay within a fixed retry
\* count (here: the number of failures the venue is allowed).
C8_HedgeAttemptsBounded ==
    \A side \in Sides : hedges[side] <= MaxHedgeFailures

\* The step of the cycle a call belongs to, as the claim numbers them:
\* snapshot, quote, reprice decision, fill check, hedge dispatch.
StepOf(c) ==
    CASE c.op = "get_orderbook" -> 1
      [] c.op = "calculate_bid_ask" -> 2
      [] c.op \in {"cancel_order", "place_order"} -> 3
      [] c.op = "get_order_status" -> 4
      [] c.op = "place_market_order" -> 5

\* The same with fill check and hedge dispatch as one step.
StepOfMerged(c) == IF StepOf(c) = 5 THEN 4 ELSE StepOf(c)

\* Each cycle has one history: it begins with the fetch of the dYdX
\* snapshot, which no later call of the history repeats.
OneCycle ==
    /\ calls # <<>>
    /\ calls[1].op = "get_orderbook" /\ calls[1].venue = "dydx"
    /\ \A i \in 2..Len(calls) :
          ~(calls[i].op = "get_orderbook" /\ calls[i].venue = "dydx")
    /\ Cardinality({i \in DOMAIN calls : calls[i].op = "calculate_bid_ask"})
          <= 1

\* C9 as claimed: within a cycle the calls are made in the order snapshot,
\* quote, reprice, fill check, hedge dispatch, and cycles do not overlap.
C9_StepsInClaimedOrder ==
    InCycle =>
        /\ OneCycle
        /\ \A i \in DOMAIN calls : \A j \in DOMAIN calls :
              i < j => StepOf(calls[i]) <= StepOf(calls[j])

\* C9 amended: within a cycle the calls are made in the order snapshot,
\* quote, reprice, then fill check and hedge dispatch side by side: the poll
\* of the bid, its hedge, the poll of the ask, its hedge; cycles do not
\* overlap.
C9_StepsInOrder ==
    InCycle =>
        /\ OneCycle
        /\ \A i \in DOMAIN calls : \A j \in DOMAIN calls :
              i < j =>
                  /\ StepOfMerged(calls[i]) <= StepOfMerged(calls[j])
                  /\ (StepOf(calls[i]) >= 4 /\ calls[i].venue = "dydx"
                      /\ calls[j].venue = "dydx")
                     => (calls[i].side = "BUY" /\ calls[j].side = "SELL")
        /\ \A i \in HedgeCalls :
              i > 1 /\ calls[i - 1].op = "get_order_status"

\* C9 witness: a cycle that went through every step on both sides.
C9_Witness ==
    /\ pc = "sleep"
    /\ \E i \in DOMAIN calls : calls[i].op = "cancel_order"
    /\ \E i \in DOMAIN calls : calls[i].op = "place_order"
    /\ Cardinality(HedgeCalls) = 2

\* start() is over: it has returned, or the stop() it called was left by an
\* exception (a cancel_order that raised, a further KeyboardInterrupt).
StartOver == {"exited", "stop_raised", "stop_interrupted"}

\* The last call made by the running trader has raised.
CycleFailed ==
    /\ is_running
    /\ calls # <<>>
    /\ calls[Len(calls)].result = "raise"

\* C10: a call that raises inside a cycle does not end the loop.  Unless
\* KeyboardInterrupt is raised the failed cycle is at the error backoff, the
\* backoff is followed by the while condition, the while condition by the
\* first statement of another cycle, and the loop is left only by
\* KeyboardInterrupt: the trader stops, and start() is over, only after it.
C10_LoopSurvivesFailure ==
    [][/\ CycleFailed' => pc' = "backoff"
       /\ (pc = "backoff" /\ pc' \notin {pc, "interrupted"}) =>
              /\ pc' = "head"
              /\ calls' = <<asyncio_sleep(ERROR_RETRY_DELAY)>>
       /\ (pc = "head" /\ pc' \notin {pc, "interrupted"}) =>
              pc' = "fetch_dydx"
       /\ (pc' \in StartOver /\ pc \notin StartOver) =>
              pc = "interrupted"]_vars

\* C10 witness: a cycle begins after the backoff that followed a failure.
C10_Witness ==
    /\ pc = "fetch_dydx"
    /\ is_running
    /\ calls = <<asyncio_sleep(ERROR_RETRY_DELAY)>>
    /\ orders # <<>>

\* A fetch of an order book has raised in the current cycle.
FetchFailed ==
    /\ is_running
    /\ InCycle
    /\ \E i \in DOMAIN calls :
          calls[i].op = "get_orderbook" /\ calls[i].result = "raise"

\* C11: a cycle in which the fetch of the dYdX or of the Hyperliquid order
\* book fails leaves both order slots as they were and makes no place,
\* cancel, status or hedge call: from the failed fetch to the end of the
\* backoff the history of the cycle holds get_orderbook calls only and no
\* step changes a slot.
C11_FetchFailureMutatesNothing ==
    [][/\ FetchFailed' =>
              /\ current_bid_order' = current_bid_order
              /\ current_ask_order' = current_ask_order
              /\ \A i \in DOMAIN calls' : calls'[i].op = "get_orderbook"
       /\ (FetchFailed /\ pc' = "head") =>
              /\ current_bid_order' = current_bid_order
              /\ current_ask_order' = current_ask_order
              /\ Len(orders') = Len(orders)]_vars

\* C11 witness: the Hyperliquid fetch has failed in a cycle that began with
\* both orders resting; the cycle is at its backoff.
C11_Witness ==
    /\ pc = "backoff"
    /\ Len(calls) = 2
    /\ calls[2].venue = "hyperliquid" /\ calls[2].result = "raise"
    /\ current_bid_order # None
    /\ current_ask_order # None

\* The cancel_order calls that this stop() made for the order of one side.
StopCancels(side) ==
    {i \in DOMAIN calls' :
        /\ calls'[i].op = "cancel_order"
        /\ calls'[i].side = side
        /\ calls'[i].order_id = Slot(side).order_id}

\* The cancel_order calls that the stop() before this one made for the order
\* of one side (main() calls stop() after the stop() of start()).
EarlierStopCancels(side) ==
    IF pc = "interrupted" THEN {}
    ELSE {i \in DOMAIN calls :
             /\ calls[i].op = "cancel_order"
             /\ calls[i].side = side
             /\ calls[i].order_id = Slot(side).order_id}

\* C12: when start() is over after a stop request that no further
\* KeyboardInterrupt cut short, a cancel has been attempted for the order of
\* every occupied slot, also when the cancel of the other one failed; no
\* order is cancelled more than a bounded number of times; and after the
\* stop no order is placed.  The bound on the attempts is 2: stop() as
\* start() calls it, and once more as main() calls it.
C12_StopCancelsEveryRestingOrder ==
    [][/\ (pc = "interrupted" /\ pc' \in {"exited", "stop_raised"}) =>
              \A side \in Sides :
                  Slot(side) # None => StopCancels(side) # {}
       /\ (pc \in {"interrupted", "stop_raised", "stop_interrupted"}
              /\ pc' \in StartOver) =>
              \A side \in Sides :
                  Slot(side) # None =>
                      Cardinality(StopCancels(side))
                          + Cardinality(EarlierStopCancels(side)) <= 2
       /\ pc \in StartOver => Len(orders') = Len(orders)]_vars

\* The orders of the primary venue that have traded: each is at least one
\* trade of the day (its hedge on the secondary venue is another).
PrimaryTrades == {id \in DOMAIN orders : orders[id].filled > 0}

\* C13: the risk caps hold in every reachable state.  Stated for the cap on
\* the trades of a day, counting the trades of the primary venue only: they
\* are at most MAX_DAILY_TRADES.
C13_RiskCapsEnforced == Cardinality(PrimaryTrades) <= MAX_DAILY_TRADES

\* The snapshot the quote is computed from has a level on both sides.
TwoSided == dydx_orderbook.bids # <<>> /\ dydx_orderbook.asks # <<>>

\* The call of calculate_bid_ask under the strategy strategy.
Quoting(strategy) == pc = "quote" /\ name = strategy

\* C14: for a snapshot with a bid and an ask the best_bid_ask strategy
\* returns the price of the first bid level and the price of the first ask
\* level, whatever the sizes and the levels below.
C14_BestBidAskIsTopOfBook ==
    [][(Quoting("best_bid_ask") /\ TwoSided) =>
          /\ pc' = "update"
          /\ bid_price' = dydx_orderbook.bids[1].price
          /\ ask_price' = dydx_orderbook.asks[1].price]_vars

\* C14 witness: the strategy has quoted 998 / 2004, prices that are those of
\* the first levels of a snapshot and of no level below.
C14_Witness ==
    /\ pc = "update"
    /\ name = "best_bid_ask"
    /\ bid_price = 998 * PriceScale
    /\ ask_price = 2004 * PriceScale

\* C15: for a snapshot with an empty side both strategies raise and return
\* no quote, and the cycle ends at the backoff with no place and no cancel
\* call, the slots and the venue's orders as they were.
C15_EmptySideRaises ==
    [][(pc = "quote" /\ name \in KnownNames /\ ~TwoSided) =>
          /\ pc' = "backoff"
          /\ bid_price' = NoPrice /\ ask_price' = NoPrice
          /\ calls'[Len(calls')].op = "calculate_bid_ask"
          /\ calls'[Len(calls')].result = "raise"
          /\ \A i \in DOMAIN calls' :
                calls'[i].op \notin {"place_order", "cancel_order"}
          /\ current_bid_order' = current_bid_order
          /\ current_ask_order' = current_ask_order
          /\ orders' = orders]_vars

\* C15 witness: the mid_price_offset strategy has raised and the cycle is at
\* its backoff.
C15_Witness ==
    /\ pc = "backoff"
    /\ name = "mid_price_offset"
    /\ calls[Len(calls)].op = "calculate_bid_ask"
    /\ calls[Len(calls)].result = "raise"

\* C16: a trader whose strategy name is unknown never runs: it is not
\* started and it is at no statement of the trading loop.
C16_UnknownStrategyNeverRuns ==
    name \notin KnownNames => ~is_running /\ pc = "init"

\* a < b, for doubles a and b.
Below(a, b) ==
    Then(IF a.k > b.k THEN a.k ELSE b.k, LAMBDA k :
        BigLess(Scaled(a, k), Scaled(b, k)))

\* The quote a call of calculate_bid_ask leaves and twice the mid price of
\* the snapshot it reads (the sum of the doubles of its two best prices,
\* not rounded), as naturals over one power of two.
AroundMid ==
    Then(Double(dydx_orderbook.bids[1].price, PriceScale), LAMBDA best_bid :
    Then(Double(dydx_orderbook.asks[1].price, PriceScale), LAMBDA best_ask :
    Then(CHOOSE k \in {best_bid.k, best_ask.k, bid_price'.k, ask_price'.k} :
             \A j \in {best_bid.k, best_ask.k, bid_price'.k, ask_price'.k} :
                 j <= k, LAMBDA k :
        [bid |-> Scaled(bid_price', k),
         ask |-> Scaled(ask_price', k),
         twice_mid |-> Trim(BigPlus(Scaled(best_bid, k),
                                    Scaled(best_ask, k), 0))])))

\* x = bps * twice_mid for bps = 1 / OffsetDenominator.
Bps(x, twice_mid) == BigTimes(x, OffsetDenominator, 0) = twice_mid

\* x is within twice_mid / 2^bits of bps * twice_mid.
NearBps(x, twice_mid, bits) ==
    ~BigLess(BigTimes(twice_mid, OffsetDenominator, 0),
             BigShift(BigDistance(BigTimes(x, OffsetDenominator, 0),
                                  twice_mid), bits))

\* C17 as claimed: for a snapshot with a bid and an ask the mid_price_offset
\* strategy returns bid = mid * (1 - bps) and ask = mid * (1 + bps) for
\* mid = (top bid + top ask) / 2 and bps = 1 / OffsetDenominator, so that
\* bid < mid < ask and ask - bid = 2 * bps * mid.  bid = mid * (1 - bps) is
\* stated as 2 * (mid - bid) = bps * 2 * mid.
C17_MidOffsetExactlyAroundMid ==
    [][(Quoting("mid_price_offset") /\ TwoSided) =>
          /\ pc' = "update"
          /\ Then(AroundMid, LAMBDA q :
                 /\ BigLess(BigShift(q.bid, 1), q.twice_mid)
                 /\ BigLess(q.twice_mid, BigShift(q.ask, 1))
                 /\ Bps(BigDistance(q.twice_mid, BigShift(q.bid, 1)),
                        q.twice_mid)
                 /\ Bps(BigDistance(BigShift(q.ask, 1), q.twice_mid),
                        q.twice_mid)
                 /\ Bps(BigDistance(q.ask, q.bid), q.twice_mid))]_vars

\* C17: for a snapshot with a bid and an ask the mid_price_offset strategy
\* returns a bid within 2^-51 * mid of mid * (1 - bps) and an ask within
\* 2^-51 * mid of mid * (1 + bps), for mid = (top bid + top ask) / 2 and
\* bps = 1 / OffsetDenominator, so that bid < mid < ask and ask - bid is
\* within 2^-51 * mid of 2 * bps * mid; 2^-51 is twice the distance from 1
\* to the double that follows it.
C17_MidOffsetAroundMid ==
    [][(Quoting("mid_price_offset") /\ TwoSided) =>
          /\ pc' = "update"
          /\ Then(AroundMid, LAMBDA q :
                 /\ BigLess(BigShift(q.bid, 1), q.twice_mid)
                 /\ BigLess(q.twice_mid, BigShift(q.ask, 1))
                 /\ NearBps(BigDistance(q.twice_mid, BigShift(q.bid, 1)),
                            q.twice_mid, MantissaBits - 2)
                 /\ NearBps(BigDistance(BigShift(q.ask, 1), q.twice_mid),
                            q.twice_mid, MantissaBits - 2)
                 /\ NearBps(BigDistance(q.ask, q.bid), q.twice_mid,
                            MantissaBits - 1))]_vars

\* C17 witness: the strategy has quoted around the mid price 100.05 of
\* 100 / 100.1: a bid between 100.03995 and 100.04 and an ask between
\* 100.06 and 100.06005, prices that are no multiple of 1 / PriceScale.
C17_Witness ==
    /\ pc = "update"
    /\ name = "mid_price_offset"
    /\ Below(Double(Price(100040) - 1, PriceScale), bid_price)
    /\ Below(bid_price, Double(Price(100040), PriceScale))
    /\ Below(Double(Price(100060), PriceScale), ask_price)
    /\ Below(ask_price, Double(Price(100060) + 1, PriceScale))

\* The calls a step of _update_orders or _check_filled_orders adds to the
\* history of its cycle.
NewCalls == (Len(calls) + 1)..Len(calls')

\* The step dispatches a hedge for the order of side.
HedgedInStep(side) ==
    \E i \in NewCalls :
        /\ calls'[i].op = "place_market_order"
        /\ calls'[i].side = Opposite(side)

\* The step takes the order of side out of its slot.
LeavesSlot(side) == Slot(side) # None /\ Slot(side)' # Slot(side)

\* C18: no un-hedged exposure.  An order that has traded on the primary
\* venue does not leave its slot in a step that dispatches no hedge for it
\* (the engine has no halted state the step could enter instead).
C18_NoUnhedgedExposure ==
    [][\A side \in Sides :
          (LeavesSlot(side) /\ SlotOrder(side).filled > 0)
              => HedgedInStep(side)]_vars

\* C19: the fill check that dispatches the hedge of an order takes the
\* order out of its slot whether the hedge call returns or raises, and an
\* order for which a hedge was dispatched gets no second one.
C19_RemovedBeforeHedgeCompletes ==
    [][\A side \in Sides :
          /\ (pc = "check" /\ HedgedInStep(side)) => Slot(side)' = None
          /\ (pc = "check" /\ Slot(side) # None /\ hedges[side] >= 1)
                 => ~HedgedInStep(side)]_vars

\* C20: an order leaves its slot only when it is FILLED and the step
\* dispatches its hedge, or when the step's cancel_order for it returned
\* True.
C20_LeavesOnlyHedgedOrCancelled ==
    [][\A side \in Sides :
          LeavesSlot(side) =>
              \/ /\ VenueStatus(SlotOrder(side)) = "FILLED"
                 /\ HedgedInStep(side)
              \/ \E i \in NewCalls :
                    /\ calls'[i].op = "cancel_order"
                    /\ calls'[i].side = side
                    /\ calls'[i].order_id = Slot(side).order_id
                    /\ calls'[i].result = "true"]_vars

\* The cancel_order calls of the step for the order of side that returned
\* (True or False).
CancelReturned(side) ==
    {i \in UpdateCalls(side, "cancel_order") : calls'[i].result # "raise"}

\* The step puts an order into the slot of side that was not there before.
EntersSlot(side) == Slot(side)' # None /\ Slot(side)' # Slot(side)

\* The order in the slot of side after the step is one that a place_order
\* call of the step has created on the venue.
PlacedInStep(side) ==
    \E j \in UpdateCalls(side, "place_order") :
        /\ calls'[j].result = "ok"
        /\ calls'[j].order_id > Len(orders)
        /\ calls'[j].order_id = Slot(side)'.order_id
        /\ calls'[j].price = Slot(side)'.price

\* No order is amended in place: an order that enters a slot is a new order
\* of the venue, created by a place_order call of the same step.
NeverAmended == \A side \in Sides : EntersSlot(side) => PlacedInStep(side)

\* C21 as claimed: the evaluation of _update_orders that cancels the resting
\* order of a side places no order for that side and leaves the slot empty
\* for the next evaluation to fill it; no order is amended in place.
C21_ReplacedInNextEvaluation ==
    [][/\ UpdateEvaluated =>
              \A side \in Sides :
                  CancelReturned(side) # {} =>
                      /\ UpdateCalls(side, "place_order") = {}
                      /\ Slot(side)' = None
       /\ NeverAmended]_vars

\* C21 amended: the evaluation of _update_orders that cancels the resting
\* order of a side, when no KeyboardInterrupt ends it, places the replacement
\* itself, after the cancels of both sides and at the price quoted in this
\* cycle; only when a later call of the evaluation raises before that
\* placement the slot is left empty (for the next evaluation that gets to
\* it).  No order is amended in place.
C21_ReplacedInSameEvaluation ==
    [][/\ UpdateEvaluated =>
              \A side \in Sides :
                  CancelReturned(side) # {} =>
                      IF UpdateCalls(side, "place_order") = {}
                      THEN pc' = "backoff" /\ Slot(side)' = None
                      ELSE /\ Cardinality(UpdateCalls(side, "place_order")) = 1
                           /\ \A j \in UpdateCalls(side, "place_order") :
                                 /\ calls'[j].price = QuotedPrice(side)
                                 /\ \A i \in NewCalls :
                                       calls'[i].op = "cancel_order" => i < j
                                 /\ IF calls'[j].result = "ok"
                                    THEN PlacedInStep(side)
                                    ELSE /\ pc' = "backoff"
                                         /\ Slot(side)' = None
       /\ NeverAmended]_vars

\* C21 witness: an evaluation has cancelled the resting ask and has placed
\* its replacement, which is now in the slot at the price of the new quote.
C21_Witness ==
    /\ pc = "check"
    /\ \E i \in DOMAIN calls : \E j \in DOMAIN calls :
          /\ i < j
          /\ calls[i].op = "cancel_order" /\ calls[i].side = "SELL"
          /\ calls[i].result = "true"
          /\ calls[j].op = "place_order" /\ calls[j].side = "SELL"
          /\ calls[j].result = "ok"
          /\ calls[i].order_id < calls[j].order_id
          /\ current_ask_order.order_id = calls[j].order_id
          /\ current_ask_order.price = Price(2000999)

\* An evaluation of _check_filled_orders, returned or ended by an exception.
CheckEvaluated == pc = "check" /\ pc' \in {"sleep", "backoff"}

\* The get_order_status calls of the step for the order in the slot of side.
PollsInStep(side) ==
    {i \in NewCalls :
        /\ calls'[i].op = "get_order_status"
        /\ calls'[i].side = side
        /\ calls'[i].order_id = Slot(side).order_id}

\* C22: the fill check of a cycle polls the status of the order of every
\* occupied slot exactly once, also when the poll or the hedge of the other
\* side's order raises in that fill check.
C22_EveryRestingOrderPolledOnce ==
    [][CheckEvaluated =>
          \A side \in Sides :
              Slot(side) # None => Cardinality(PollsInStep(side)) = 1]_vars

\* The calls of the step to the primary venue for the order of side.
SideCalls(side) ==
    {i \in NewCalls : calls'[i].venue = "dydx" /\ calls'[i].side = side}

\* The decision of _update_orders for side, as its quote and its resting
\* order alone determine it: place when the slot is empty, cancel when the
\* deviation is above the threshold, and otherwise neither.
DecidedFor(side) ==
    IF Slot(side) = None
    THEN \E j \in UpdateCalls(side, "place_order") :
             calls'[j].price = QuotedPrice(side)
    ELSE IF ComputedAbove(side)
    THEN \E i \in UpdateCalls(side, "cancel_order") :
             calls'[i].order_id = Slot(side).order_id
    ELSE NoCancelNoPlace(side)

\* C23: the sides are handled independently.  A slot changes only in a step
\* that calls the venue for the order of its side; an evaluation of
\* _update_orders makes for each side the decision that the quote and the
\* resting order of that side determine, and an evaluation of
\* _check_filled_orders polls the order of each side, also when a call made
\* for the other side raises in the same evaluation.
C23_SidesIndependent ==
    [][\A side \in Sides :
          /\ (pc \in {"update", "check"} /\ Slot(side)' # Slot(side))
                 => SideCalls(side) # {}
          /\ UpdateEvaluated => DecidedFor(side)
          /\ (CheckEvaluated /\ Slot(side) # None)
                 => PollsInStep(side) # {}]_vars

\* The order in the slot of side after the step is a new LIMIT order of the
\* trade size at the price quoted in this cycle, as place_order returned it
\* and as the venue holds it.
NewQuotedOrder(side) ==
    LET o == Slot(side)'
    IN  /\ o.type = "LIMIT"
        /\ o.side = side
        /\ o.size = trade_size
        /\ o.price = QuotedPrice(side)
        /\ o.order_id \in (Len(orders) + 1)..Len(orders')
        /\ Ref(orders', o.order_id, side) > Len(orders)
        /\ orders'[Ref(orders', o.order_id, side)].size = trade_size
        /\ PlacedInStep(side)

\* C24: when _update_orders returns, the bid slot and the ask slot both hold
\* an order: the order that was resting before, where there was one and the
\* deviation of the new quote from its price is not above the threshold,
\* and otherwise a new LIMIT order of the trade size placed at the price
\* quoted in this cycle.
C24_BothSlotsHeldAfterUpdate ==
    [][UpdateReturned =>
          \A side \in Sides :
              /\ Slot(side)' # None
              /\ IF /\ Slot(side) # None
                    /\ ~ComputedAbove(side)
                 THEN Slot(side)' = Slot(side)
                 ELSE NewQuotedOrder(side)]_vars

\* C24 witness: _update_orders has returned with the bid that was resting
\* before still in its slot and with a new ask, placed in this cycle.
C24_Witness ==
    /\ pc = "check"
    /\ current_bid_order # None
    /\ \A i \in DOMAIN calls : calls[i].side # "BUY"
    /\ current_ask_order.type = "LIMIT"
    /\ \E j \in DOMAIN calls :
          /\ calls[j].op = "place_order" /\ calls[j].side = "SELL"
          /\ calls[j].result = "ok"
          /\ calls[j].order_id = current_ask_order.order_id
          /\ calls[j].price = current_ask_order.price

====
